---- MODULE Spec2Model ----
(***************************************************************************)
(* Gossip validation of SignedBLSToExecutionChange messages and the        *)
(* inbound rate limit of the light_client_updates_by_range protocol.       *)
(*                                                                         *)
(* validateBlsToExecutionChange is an async function: it runs             *)
(* synchronously from its call up to the await on                          *)
(* chain.bls.verifySignatureSets, and again from the verifier's answer to  *)
(* its end.  Each of these two stretches is one action.                    *)
(***************************************************************************)
EXTENDS Integers, Sequences, FiniteSets, TLC

(***************************************************************************)
(* Bounds of the model.                                                    *)
(***************************************************************************)
\* number of validations that may be in flight at the same time
NumValidations == 2

\* MAX_REQUEST_LIGHT_CLIENT_UPDATES is imported from the params package; the
\* quota is whatever positive number it is
MAX_REQUEST_LIGHT_CLIENT_UPDATES == 4
\* the clock advances in steps of ClockStepMs up to MaxNowMs
ClockStepMs == 5000
MaxNowMs == 20000

\* number of setActivePreset calls followed
MaxSetPresetCalls == 4

\* concurrent validation slots
Vals == 1..NumValidations

(***************************************************************************)
(* params: withdrawal prefixes.  Each is a one-byte Uint8Array.            *)
(***************************************************************************)
BLS_WITHDRAWAL_PREFIX == <<0>>
ETH1_ADDRESS_WITHDRAWAL_PREFIX == <<0>>

\* `bytes[0] = PREFIX` stores ToNumber(PREFIX) into the byte; for a one-element
\* Uint8Array that is the value of its element.
ToByte(prefix) == prefix[1] % 256

(***************************************************************************)
(* params: the active preset.                                              *)
(***************************************************************************)
\* the keys of `presets`
PresetNames == {"mainnet", "minimal"}
presets == [name \in PresetNames |-> <<"preset", name>>]

\* what process.env.LODESTAR_PRESET may hold: nothing, a preset name, another string
EnvValues == {"undefined", "mainnet", "minimal", "gnosis"}

\* PresetName[process?.env?.LODESTAR_PRESET as PresetName]
presetNameOfEnv(envValue) == IF envValue \in PresetNames THEN envValue ELSE "undefined"

\* userSelectedPreset || PresetName[...] || PresetName.mainnet
activePresetOf(userSelected, envValue) ==
    IF userSelected # "null" THEN userSelected
    ELSE IF presetNameOfEnv(envValue) # "undefined" THEN presetNameOfEnv(envValue)
    ELSE "mainnet"

\* variant: the preset is not frozen by the import
importParams_notFrozen(status, userSelected, envValue) ==
    [presetStatus |-> status,
     ACTIVE_PRESET |-> activePresetOf(userSelected, envValue),
     exported |-> presets[activePresetOf(userSelected, envValue)]]

\* the evaluation of the params module: the frozen flag, ACTIVE_PRESET and
\* the constants taken from presets[ACTIVE_PRESET]
importParams(status, userSelected, envValue) ==
    LET active == activePresetOf(userSelected, envValue)
    IN  [presetStatus |-> [status EXCEPT !.frozen = TRUE],
         ACTIVE_PRESET |-> active,
         exported |-> presets[active]]

\* setActivePreset(presetName): throws once the preset is frozen
setActivePreset(status, userSelected, presetName) ==
    IF status.frozen
    THEN [thrown |-> TRUE, userSelectedPreset |-> userSelected]
    ELSE [thrown |-> FALSE, userSelectedPreset |-> presetName]

(***************************************************************************)
(* Keys, digests and signatures.                                           *)
(***************************************************************************)
\* the withdrawal key pair of the fixture and a key pair nobody registered
SecretKeys == {"wsk", "other"}
toPublicKey(sk) == IF sk = "wsk" THEN "wskPub" ELSE "otherPub"
Pubkeys == {toPublicKey(sk) : sk \in SecretKeys}

\* sha256 of a public key: 32 bytes, kept as the first byte and the other 31
digest(pubkey) == IF pubkey = "wskPub" THEN <<171, "sha(wskPub)[1..31]">>
                                       ELSE <<92, "sha(otherPub)[1..31]">>

\* the fork a message was broadcast on, and the fork schedule of the config
Forks == {"capella"}
SLOTS_PER_EPOCH == 32
config == [forks |-> [f \in Forks |-> [epoch |-> 0]]]
computeStartSlotAtEpoch(epoch) == epoch * SLOTS_PER_EPOCH

\* the domain of a BLS-to-execution-change signature at a slot
getDomain(slot) == <<"DOMAIN_BLS_TO_EXECUTION_CHANGE", slot>>
computeSigningRoot(message, domain) == <<message, domain>>

\* a signature is determined by the key that signed and the root it signed;
\* ZeroSignature is Buffer.alloc(96, 0)
ZeroSignature == [sk |-> "none", root |-> <<>>]
sign(sk, root) == [sk |-> sk, root |-> root]
verify(pubkey, root, signature) ==
    /\ signature.sk \in SecretKeys
    /\ toPublicKey(signature.sk) = pubkey
    /\ signature.root = root


(***************************************************************************)
(* Head state: the validator registry.  A validator is its withdrawal      *)
(* credentials: the digest of its withdrawal public key with byte 0        *)
(* overwritten by a withdrawal prefix.                                     *)
(***************************************************************************)
PrefixKinds == {"BLS", "ETH1"}
prefixOfKind(kind) == IF kind = "BLS" THEN BLS_WITHDRAWAL_PREFIX
                                      ELSE ETH1_ADDRESS_WITHDRAWAL_PREFIX

\* withdrawalCredentials = digest(fromBlsPubkey); withdrawalCredentials[0] = prefix
makeCredentials(pubkey, prefix) == [digest(pubkey) EXCEPT ![1] = ToByte(prefix)]

\* the prefix kinds of the validators of the unit test's head state: validator
\* 0 has a BLS prefix, validator 1 already an execution-address prefix
kinds == [i \in {0, 1} |-> IF i = 0 THEN "BLS" ELSE "ETH1"]
NumValidators == Cardinality(DOMAIN kinds)

\* validator indices a message may carry: 0..NumValidators-1 are in the
\* registry, NumValidators is beyond it
ValidatorIndices == 0..NumValidators

\* the registry with validator i given the prefix kinds[i]; all withdrawal
\* credentials come from the same withdrawal key
generateState ==
    [validators |-> [i \in 0..(NumValidators - 1) |->
        [withdrawalCredentials |-> makeCredentials(toPublicKey("wsk"), prefixOfKind(kinds[i]))]]]

\* state.validators.length
validatorsLength(state) == Cardinality(DOMAIN state.validators)

(***************************************************************************)
(* Messages: capella.SignedBLSToExecutionChange.                           *)
(***************************************************************************)
ExecutionAddress == "0x00..00"
BLSToExecutionChanges ==
    [validatorIndex : ValidatorIndices, fromBlsPubkey : Pubkeys,
     toExecutionAddress : {ExecutionAddress}]

\* the root a correct signature of `message` broadcast on `fork` signs
signingRootOf(message, fork) ==
    computeSigningRoot(message, getDomain(computeStartSlotAtEpoch(config.forks[fork].epoch)))

\* the signatures a message may arrive with: all zero, signed by the
\* withdrawal key, or the signature of the same change for validator 0
SignaturesFor(message, fork) ==
    {ZeroSignature,
     sign("wsk", signingRootOf(message, fork)),
     sign("wsk", signingRootOf([message EXCEPT !.validatorIndex = 0], fork))}

SignedBLSToExecutionChanges ==
    UNION {{[message |-> m, signature |-> sig] : sig \in SignaturesFor(m, f)} :
             <<m, f>> \in BLSToExecutionChanges \X Forks}

(***************************************************************************)
(* reqresp: the light_client_updates_by_range protocol and the inbound     *)
(* rate limit of a peer.                                                   *)
(***************************************************************************)
Peers == {"peerA", "peerB"}

\* altair.LightClientUpdatesByRange requests
LightClientUpdatesByRangeRequests ==
    [startPeriod : {0}, count : 0..(MAX_REQUEST_LIGHT_CLIENT_UPDATES + 1)]

LightClientUpdatesByRange ==
    [method |-> "light_client_updates_by_range",
     version |-> 1,
     encoding |-> "ssz_snappy",
     inboundRateLimits |->
        [byPeer |-> [quota |-> MAX_REQUEST_LIGHT_CLIENT_UPDATES, quotaTimeMs |-> 10000]]]

\* variant: every request costs one unit, the default
getRequestCount_default(req) == 1

\* inboundRateLimits.getRequestCount
getRequestCount(req) == req.count

\* the RateLimitState of a peer that has sent no request yet
NoState == [consumed |-> -1, windowStart |-> -1]

\* variant: every request starts a new window
activeWindow_alwaysFresh(state, limits, t) == [consumed |-> 0, windowStart |-> t]

\* the state the evaluation of a request at time t starts from: a new window if
\* there is no state or the window has elapsed
activeWindow(state, limits, t) ==
    IF state = NoState \/ t - state.windowStart >= limits.quotaTimeMs
    THEN [consumed |-> 0, windowStart |-> t]
    ELSE state

\* variant: the rollover is written to the state before the request is evaluated
admit_rolloverKept(state, limits, t, req) ==
    LET cost == getRequestCount(req)
        window == activeWindow(state, limits, t)
    IN  IF window.consumed + cost <= limits.quota
        THEN [admitted |-> TRUE, state |-> [window EXCEPT !.consumed = @ + cost]]
        ELSE [admitted |-> FALSE, state |-> window]

\* variant: the quota is compared with what was consumed before the request
admit_costNotCompared(state, limits, t, req) ==
    LET cost == getRequestCount(req)
        window == activeWindow(state, limits, t)
    IN  IF window.consumed <= limits.quota
        THEN [admitted |-> TRUE, state |-> [window EXCEPT !.consumed = @ + cost]]
        ELSE [admitted |-> FALSE, state |-> state]

\* admit(peerId, protocol, request) at time t: the answer and the state it leaves
admit(state, limits, t, req) ==
    LET cost == getRequestCount(req)
        window == activeWindow(state, limits, t)
    IN  IF window.consumed + cost <= limits.quota
        THEN [admitted |-> TRUE, state |-> [window EXCEPT !.consumed = @ + cost]]
        ELSE [admitted |-> FALSE, state |-> state]

\* variant: one RateLimitState for the protocol, shared by all peers
putRateLimitState_shared(limiter, peer, state) == [p \in DOMAIN limiter |-> state]

\* the limiter with the RateLimitState of a peer replaced
putRateLimitState(limiter, peer, state) == [limiter EXCEPT ![peer] = state]

\* history: the units admitted per instant, instants of the last quotaTimeMs only
logAdmitted(log, t, units) ==
    IF units = 0 THEN log
    ELSE IF \E e \in log : e.t = t
    THEN {IF e.t = t THEN [e EXCEPT !.units = @ + units] ELSE e : e \in log}
    ELSE log \cup {[t |-> t, units |-> units]}

logSince(log, t) == {e \in log : e.t >= t}
logAfter(log, t) == {e \in log : e.t > t}

RECURSIVE logUnits(_)
logUnits(log) ==
    IF log = {} THEN 0
    ELSE LET e == CHOOSE x \in log : TRUE IN e.units + logUnits(log \ {e})

(***************************************************************************)
(* State.                                                                  *)
(***************************************************************************)
VARIABLES
    headState,  \* chain.getHeadState(): the validator registry
    seen,       \* opPool: validator indices with a seen change
    val,        \* per slot, the validation running in it
    accepted,   \* history: validator indices of validations that resolved
    firstAccepted, \* history: the first message whose validation completed accepted
    now,        \* the clock, in ms
    rateLimit,  \* per peer, its RateLimitState for the protocol
    lastAdmit,  \* history: the last admit call and its answer
    admitLog,   \* history: per peer, the units admitted in the last quotaTimeMs
    presetStatus,       \* presetStatus: the frozen flag
    userSelectedPreset, \* the preset chosen with setActivePreset, or "null"
    processEnv,         \* process.env.LODESTAR_PRESET
    params,             \* the exports of the params module, once it is imported
    setPreset,          \* history: the setActivePreset calls and the last one's end
    batch               \* chain.bls: the batch of verification requests in work

valVars == <<headState, seen, val, accepted, firstAccepted>>
rlVars == <<now, rateLimit, lastAdmit, admitLog>>
presetVars == <<presetStatus, userSelectedPreset, processEnv, params, setPreset>>
vars == <<headState, seen, val, accepted, firstAccepted, now, rateLimit, lastAdmit, admitLog,
          presetStatus, userSelectedPreset, processEnv, params, setPreset, batch>>

\* a slot in which no validation runs
Idle ==
    [pc |-> "idle", sbc |-> <<>>, signatureFork |-> "", startSeen |-> FALSE,
     resubmitted |-> FALSE,
     headRead |-> FALSE, structural |-> "skipped", verifyCalls |-> <<>>,
     verdict |-> "none", verifiedBy |-> "none", action |-> "NONE", code |-> "NONE", markSeenCalls |-> 0]

(***************************************************************************)
(* opPool                                                                  *)
(***************************************************************************)
hasSeenBlsToExecutionChange(pool, validatorIndex) == validatorIndex \in pool
insertBlsToExecutionChange(pool, validatorIndex) == pool \cup {validatorIndex}

(***************************************************************************)
(* state-transition: the structural check and the signature set.           *)
(***************************************************************************)
getBlsToExecutionChangeSignatureSet(cfg, signatureSlot, sbc) ==
    [type |-> "single",
     pubkey |-> sbc.message.fromBlsPubkey,
     signingRoot |-> computeSigningRoot(sbc.message, getDomain(signatureSlot)),
     signature |-> sbc.signature]

verifySignatureSet(set) == verify(set.pubkey, set.signingRoot, set.signature)

isValidBlsToExecutionChange(state, sbc, verifySignature) ==
    LET addressChange == sbc.message
        validatorIndex == addressChange.validatorIndex
    IN  IF validatorIndex >= validatorsLength(state)
        THEN [valid |-> FALSE]
        ELSE
        LET withdrawalCredentials == state.validators[validatorIndex].withdrawalCredentials
        IN  IF withdrawalCredentials[1] # ToByte(BLS_WITHDRAWAL_PREFIX)
            THEN [valid |-> FALSE]
            ELSE IF withdrawalCredentials #
                      makeCredentials(addressChange.fromBlsPubkey, BLS_WITHDRAWAL_PREFIX)
            THEN [valid |-> FALSE]
            ELSE IF verifySignature /\ ~verifySignatureSet(
                      getBlsToExecutionChangeSignatureSet(config, 0, sbc))
            THEN [valid |-> FALSE]
            ELSE [valid |-> TRUE]

(***************************************************************************)
(* validateBlsToExecutionChange, from its call to the await: the opPool    *)
(* it leaves and the fields of the slot it sets.                           *)
(***************************************************************************)
Thrown(pool, headRead, structural, action, code) ==
    [pool |-> pool, pc |-> "done", headRead |-> headRead, structural |-> structural,
     verifyCalls |-> <<>>, action |-> action, code |-> code]

Awaiting(pool, sets, opts) ==
    [pool |-> pool, pc |-> "awaitVerify", headRead |-> TRUE, structural |-> "valid",
     verifyCalls |-> <<[sets |-> sets, opts |-> opts]>>, action |-> "NONE", code |-> "NONE"]

signatureSetOf(sbc, signatureFork) ==
    getBlsToExecutionChangeSignatureSet(config,
        computeStartSlotAtEpoch(config.forks[signatureFork].epoch), sbc)

\* variant: the dedup check is missing
validateUntilAwait_noDedup(pool, state, sbc, signatureFork) ==
    IF ~isValidBlsToExecutionChange(state, sbc, FALSE).valid
    THEN Thrown(pool, TRUE, "invalid", "REJECT", "INVALID")
    ELSE Awaiting(pool, <<signatureSetOf(sbc, signatureFork)>>, [batchable |-> TRUE])

\* variant: the result of the structural check is not looked at
validateUntilAwait_noStructural(pool, state, sbc, signatureFork) ==
    IF hasSeenBlsToExecutionChange(pool, sbc.message.validatorIndex)
    THEN Thrown(pool, FALSE, "skipped", "IGNORE", "ALREADY_EXISTS")
    ELSE Awaiting(pool, <<signatureSetOf(sbc, signatureFork)>>, [batchable |-> TRUE])

\* variant: the head state is read before the dedup check
validateUntilAwait_headFirst(pool, state, sbc, signatureFork) ==
    IF hasSeenBlsToExecutionChange(pool, sbc.message.validatorIndex)
    THEN Thrown(pool, TRUE, "skipped", "IGNORE", "ALREADY_EXISTS")
    ELSE IF ~isValidBlsToExecutionChange(state, sbc, FALSE).valid
    THEN Thrown(pool, TRUE, "invalid", "REJECT", "INVALID")
    ELSE Awaiting(pool, <<signatureSetOf(sbc, signatureFork)>>, [batchable |-> TRUE])

\* variant: the subject is marked seen before the signature is verified
validateUntilAwait_markEarly(pool, state, sbc, signatureFork) ==
    IF hasSeenBlsToExecutionChange(pool, sbc.message.validatorIndex)
    THEN Thrown(pool, FALSE, "skipped", "IGNORE", "ALREADY_EXISTS")
    ELSE IF ~isValidBlsToExecutionChange(state, sbc, FALSE).valid
    THEN Thrown(pool, TRUE, "invalid", "REJECT", "INVALID")
    ELSE Awaiting(insertBlsToExecutionChange(pool, sbc.message.validatorIndex),
                  <<signatureSetOf(sbc, signatureFork)>>, [batchable |-> TRUE])

validateUntilAwait(pool, state, sbc, signatureFork) ==
    IF hasSeenBlsToExecutionChange(pool, sbc.message.validatorIndex)
    THEN Thrown(pool, FALSE, "skipped", "IGNORE", "ALREADY_EXISTS")
    ELSE
    LET valid == isValidBlsToExecutionChange(state, sbc, FALSE).valid
    IN  IF ~valid
        THEN Thrown(pool, TRUE, "invalid", "REJECT", "INVALID")
        ELSE
        LET signatureSlot == computeStartSlotAtEpoch(config.forks[signatureFork].epoch)
            signatureSet == getBlsToExecutionChangeSignatureSet(config, signatureSlot, sbc)
        IN  Awaiting(pool, <<signatureSet>>, [batchable |-> TRUE])

\* variant: the negation of the verifier's answer is lost
validateAfterAwait_inverted(verified) ==
    IF verified
    THEN [pc |-> "done", action |-> "REJECT", code |-> "INVALID_SIGNATURE"]
    ELSE [pc |-> "resolved", action |-> "ACCEPT", code |-> "NONE"]

\* variant: a failed verification is raised as IGNORE
validateAfterAwait_ignored(verified) ==
    IF ~verified
    THEN [pc |-> "done", action |-> "IGNORE", code |-> "INVALID_SIGNATURE"]
    ELSE [pc |-> "resolved", action |-> "ACCEPT", code |-> "NONE"]

\* variant: a failed verification is verified again
validateAfterAwait_retry(verified) ==
    IF ~verified
    THEN [pc |-> "awaitVerify", action |-> "NONE", code |-> "NONE"]
    ELSE [pc |-> "resolved", action |-> "ACCEPT", code |-> "NONE"]

\* variant: a failed verification is reported with the structural code
validateAfterAwait_wrongCode(verified) ==
    IF ~verified
    THEN [pc |-> "done", action |-> "REJECT", code |-> "INVALID"]
    ELSE [pc |-> "resolved", action |-> "ACCEPT", code |-> "NONE"]

\* validateBlsToExecutionChange, from the verifier's answer to its end
validateAfterAwait(verified) ==
    IF ~verified
    THEN [pc |-> "done", action |-> "REJECT", code |-> "INVALID_SIGNATURE"]
    ELSE [pc |-> "resolved", action |-> "ACCEPT", code |-> "NONE"]

(***************************************************************************)
(* Actions.                                                                *)
(***************************************************************************)
NoAdmit == [peer |-> "none", count |-> 0, admitted |-> FALSE, at |-> -1]

InitRateLimit ==
    /\ now = 0
    /\ rateLimit = [p \in Peers |-> NoState]
    /\ lastAdmit = NoAdmit
    /\ admitLog = [p \in Peers |-> {}]

\* the head state of the unit test, an empty opPool, no validation running
InitValidation ==
    /\ headState = generateState
    /\ seen = {}
    /\ val = [v \in Vals |-> Idle]
    /\ accepted = {}
    /\ firstAccepted = <<>>

\* the params module is imported with the default preset
InitParams ==
    /\ presetStatus = [frozen |-> TRUE]
    /\ userSelectedPreset = "null"
    /\ processEnv = "undefined"
    /\ params = [imported |-> TRUE, ACTIVE_PRESET |-> "mainnet", exported |-> presets["mainnet"]]
    /\ setPreset = [calls |-> 0, last |-> "none"]

NoBatch == [stage |-> "none", all |-> {}, members |-> {}, calls |-> {}]

Init ==
    /\ InitValidation
    /\ InitRateLimit
    /\ InitParams
    /\ batch = NoBatch

\* a message arrives and validateBlsToExecutionChange runs up to its first
\* throw or to the await on the verifier
Validate(v, sbc, signatureFork) ==
    /\ val[v].pc = "idle"
    /\ LET r == validateUntilAwait(seen, headState, sbc, signatureFork)
       IN  /\ val' = [val EXCEPT ![v] =
                     [Idle EXCEPT !.pc = r.pc, !.sbc = sbc, !.signatureFork = signatureFork,
                                  !.startSeen = sbc.message.validatorIndex \in seen,
                                  !.resubmitted = (sbc = firstAccepted),
                                  !.headRead = r.headRead, !.structural = r.structural,
                                  !.verifyCalls = r.verifyCalls,
                                  !.action = r.action, !.code = r.code]]
           /\ seen' = r.pool
    /\ UNCHANGED <<headState, accepted, firstAccepted, rlVars, presetVars, batch>>

\* chain.bls answers the pending verifySignatureSets call of slot v
VerifySignatureSets(v) ==
    /\ val[v].pc = "awaitVerify"
    /\ LET call == val[v].verifyCalls[Len(val[v].verifyCalls)]
       IN  val' = [val EXCEPT ![v].pc = "verified", ![v].verifiedBy = "single",
                              ![v].verdict =
                                  IF \A i \in 1..Len(call.sets) : verifySignatureSet(call.sets[i])
                                  THEN "true" ELSE "false"]
    /\ UNCHANGED <<headState, seen, accepted, firstAccepted, rlVars, presetVars, batch>>

\* the validation of slot v continues after the await
Resume(v) ==
    /\ val[v].pc = "verified"
    /\ LET r == validateAfterAwait(val[v].verdict = "true")
       IN  /\ val' = [val EXCEPT ![v].pc = r.pc, ![v].action = r.action, ![v].code = r.code]
           /\ accepted' = IF r.action = "ACCEPT"
                          THEN accepted \cup {val[v].sbc.message.validatorIndex}
                          ELSE accepted
    /\ UNCHANGED <<headState, seen, firstAccepted, rlVars, presetVars, batch>>

\* the caller of a resolved validation marks the subject seen
MarkSeen(v) ==
    /\ val[v].pc = "resolved"
    /\ seen' = insertBlsToExecutionChange(seen, val[v].sbc.message.validatorIndex)
    /\ val' = [val EXCEPT ![v].pc = "done", ![v].markSeenCalls = @ + 1]
    /\ firstAccepted' = IF firstAccepted = <<>> THEN val[v].sbc ELSE firstAccepted
    /\ UNCHANGED <<headState, accepted, rlVars, presetVars, batch>>

\* the outcome of slot v has been reported; the slot is free again
Return(v) ==
    /\ val[v].pc = "done"
    /\ val' = [val EXCEPT ![v] = Idle]
    /\ UNCHANGED <<headState, seen, accepted, firstAccepted, rlVars, presetVars, batch>>

Next ==
    \/ \E v \in Vals, sbc \in SignedBLSToExecutionChanges, f \in Forks : Validate(v, sbc, f)
    \/ \E v \in Vals : VerifySignatureSets(v)
    \/ \E v \in Vals : Resume(v)
    \/ \E v \in Vals : MarkSeen(v)
    \/ \E v \in Vals : Return(v)

Spec == Init /\ [][Next]_vars

\* the verifier answers every verifySignatureSets call, and the event loop
\* runs the continuation of every answered await
SpecLive ==
    /\ Init /\ [][Next]_vars
    /\ \A v \in Vals : WF_vars(VerifySignatureSets(v)) /\ WF_vars(Resume(v))

(***************************************************************************)
(* chain.bls as a batch verifier: batchable calls that are pending are     *)
(* coalesced into one batch, the batch is verified in one aggregate        *)
(* operation, and when that fails each request is verified on its own.     *)
(***************************************************************************)
\* the pending verifySignatureSets call of slot v
pendingCall(v) == val[v].verifyCalls[Len(val[v].verifyCalls)]

\* the slots whose batchable call waits for an answer and is in no batch
Batchable ==
    {v \in Vals : val[v].pc = "awaitVerify" /\ pendingCall(v).opts.batchable} \ batch.members

\* the aggregate verification of the signature sets of several calls: true
\* exactly when every set is valid
verifyMultipleSignatures(calls) ==
    \A call \in calls : \A i \in 1..Len(call.sets) : verifySignatureSet(call.sets[i])

\* variant: after a failed aggregate verification every request is answered false
verifyAfterBatchFailure_allFalse(call) == FALSE

\* the verification of one call of a batch whose aggregate verification failed
verifyAfterBatchFailure(call) ==
    \A i \in 1..Len(call.sets) : verifySignatureSet(call.sets[i])

\* the pending batchable calls are put into one batch
CollectBatch ==
    /\ batch.stage = "none"
    /\ Batchable # {}
    /\ batch' = [stage |-> "collected", all |-> Batchable, members |-> Batchable,
                 calls |-> {pendingCall(v) : v \in Batchable}]
    /\ UNCHANGED <<valVars, rlVars, presetVars>>

\* the aggregate verification of the batch: when it succeeds every caller is
\* answered true, when it fails the requests are verified again one by one
VerifyBatch ==
    /\ batch.stage = "collected"
    /\ IF verifyMultipleSignatures(batch.calls)
       THEN /\ val' = [v \in Vals |->
                        IF v \in batch.members
                        THEN [val[v] EXCEPT !.pc = "verified", !.verdict = "true",
                                            !.verifiedBy = "aggregate"]
                        ELSE val[v]]
            /\ batch' = NoBatch
       ELSE /\ batch' = [batch EXCEPT !.stage = "retry"]
            /\ val' = val
    /\ UNCHANGED <<headState, seen, accepted, firstAccepted, rlVars, presetVars>>

\* one request of a failed batch is verified on its own and its caller answered
RetryOne(v) ==
    /\ batch.stage = "retry"
    /\ v \in batch.members
    /\ val' = [val EXCEPT ![v].pc = "verified", ![v].verifiedBy = "retry",
                           ![v].verdict = IF verifyAfterBatchFailure(pendingCall(v))
                                          THEN "true" ELSE "false"]
    /\ batch' = IF batch.members = {v} THEN NoBatch
                ELSE [batch EXCEPT !.members = @ \ {v}]
    /\ UNCHANGED <<headState, seen, accepted, firstAccepted, rlVars, presetVars>>

NextBls ==
    \/ \E v \in Vals, sbc \in SignedBLSToExecutionChanges, f \in Forks : Validate(v, sbc, f)
    \/ CollectBatch
    \/ VerifyBatch
    \/ \E v \in Vals : RetryOne(v)
    \/ \E v \in Vals : Resume(v)
    \/ \E v \in Vals : MarkSeen(v)
    \/ \E v \in Vals : Return(v)

SpecBls == Init /\ [][NextBls]_vars

(***************************************************************************)
(* The rate limiter: requests of peers and the passing of time.            *)
(***************************************************************************)
\* the transport layer asks whether a request of a peer is admitted
Admit(peer, req) ==
    /\ LET r == admit(rateLimit[peer], LightClientUpdatesByRange.inboundRateLimits.byPeer,
                      now, req)
       IN  /\ rateLimit' = putRateLimitState(rateLimit, peer, r.state)
           /\ lastAdmit' = [peer |-> peer, count |-> req.count, admitted |-> r.admitted,
                            at |-> now]
           /\ admitLog' = [admitLog EXCEPT ![peer] =
                             IF r.admitted THEN logAdmitted(@, now, req.count) ELSE @]
    /\ UNCHANGED <<now, valVars, presetVars, batch>>

\* time passes
Tick ==
    /\ now + ClockStepMs <= MaxNowMs
    /\ now' = now + ClockStepMs
    /\ admitLog' = [p \in Peers |-> logAfter(admitLog[p],
            now' - LightClientUpdatesByRange.inboundRateLimits.byPeer.quotaTimeMs)]
    /\ UNCHANGED <<rateLimit, lastAdmit, valVars, presetVars, batch>>

NextRL ==
    \/ \E peer \in Peers, req \in LightClientUpdatesByRangeRequests : Admit(peer, req)
    \/ Tick

SpecRL == Init /\ [][NextRL]_vars

(***************************************************************************)
(* The preset: the process before and after the import of the params       *)
(* module.                                                                 *)
(***************************************************************************)
NotImported == [imported |-> FALSE, ACTIVE_PRESET |-> "undefined", exported |-> <<>>]

\* the process starts: nothing is imported, the environment is any
InitPreset ==
    /\ InitValidation
    /\ InitRateLimit
    /\ presetStatus = [frozen |-> FALSE]
    /\ userSelectedPreset = "null"
    /\ processEnv \in EnvValues
    /\ params = NotImported
    /\ setPreset = [calls |-> 0, last |-> "none"]
    /\ batch = NoBatch

SetActivePreset(presetName) ==
    /\ setPreset.calls < MaxSetPresetCalls
    /\ LET r == setActivePreset(presetStatus, userSelectedPreset, presetName)
       IN  /\ userSelectedPreset' = r.userSelectedPreset
           /\ setPreset' = [calls |-> setPreset.calls + 1,
                            last |-> IF r.thrown THEN "thrown" ELSE "returned"]
    /\ UNCHANGED <<presetStatus, processEnv, params, valVars, rlVars, batch>>

\* the first import evaluates the module; later imports get the same exports
ImportParams ==
    /\ ~params.imported
    /\ LET r == importParams(presetStatus, userSelectedPreset, processEnv)
       IN  /\ presetStatus' = r.presetStatus
           /\ params' = [imported |-> TRUE, ACTIVE_PRESET |-> r.ACTIVE_PRESET,
                         exported |-> r.exported]
    /\ UNCHANGED <<userSelectedPreset, processEnv, setPreset, valVars, rlVars, batch>>

\* the process changes its environment
SetEnv(envValue) ==
    /\ processEnv # envValue
    /\ processEnv' = envValue
    /\ UNCHANGED <<presetStatus, userSelectedPreset, params, setPreset, valVars, rlVars, batch>>

NextPreset ==
    \/ \E presetName \in PresetNames : SetActivePreset(presetName)
    \/ ImportParams
    \/ \E envValue \in EnvValues : SetEnv(envValue)

SpecPreset == InitPreset /\ [][NextPreset]_vars

\* C17: once the params module is imported, presetStatus.frozen is true and
\* stays true, every setActivePreset call throws and leaves the selected
\* preset as it was, and ACTIVE_PRESET and the constants taken from its
\* preset do not change, whatever the environment becomes.
C17_PresetFrozenAfterImport ==
    /\ [](params.imported =>
            /\ presetStatus.frozen
            /\ params.ACTIVE_PRESET \in PresetNames
            /\ params.exported = presets[params.ACTIVE_PRESET])
    /\ [][params.imported =>
            /\ params' = params
            /\ presetStatus'.frozen
            /\ setPreset'.calls # setPreset.calls =>
                  setPreset'.last = "thrown" /\ userSelectedPreset' = userSelectedPreset]_vars

\* after the import a setActivePreset call for another preset has thrown and
\* the environment names another preset
C17_Witness ==
    /\ params.imported /\ setPreset.last = "thrown"
    /\ params.ACTIVE_PRESET = "minimal"
    /\ userSelectedPreset = "null"
    /\ processEnv = "mainnet"

(***************************************************************************)
(* Properties of the validation.                                           *)
(***************************************************************************)
Started(v) == val[v].pc # "idle"
Finished(v) == val[v].pc = "done"
subject(v) == val[v].sbc.message.validatorIndex
\* what the structural check and the signature check make of the message of
\* slot v, whether or not the validation got that far
structurallyValid(v) == isValidBlsToExecutionChange(headState, val[v].sbc, FALSE).valid
correctlySigned(v) == verifySignatureSet(signatureSetOf(val[v].sbc, val[v].signatureFork))
Outcome(v, action, code) == val[v].action = action /\ val[v].code = code

\* C1: a validation whose subject the opPool reported as seen when it ran
\* has ended with IGNORE and ALREADY_EXISTS without a call of
\* verifySignatureSets, whatever its signature and other fields are.
C1_SeenIsIgnoredWithoutVerifier ==
    \A v \in Vals :
        Started(v) /\ val[v].startSeen =>
            /\ Finished(v)
            /\ Outcome(v, "IGNORE", "ALREADY_EXISTS")
            /\ val[v].verifyCalls = <<>>
            /\ val[v].verdict = "none"

\* a seen subject was validated with an all-zero signature and with a
\* public key that does not match the credentials
C1_Witness ==
    \E v \in Vals :
        /\ Finished(v) /\ val[v].startSeen
        /\ val[v].sbc.signature = ZeroSignature
        /\ ~structurallyValid(v)

\* C2: a finished validation of an unseen, structurally valid message for
\* which the verifier answered true was accepted, with exactly one markSeen
\* call, for its subject; until that call it is resolved with no markSeen.
C2_ValidIsAcceptedAndMarkedOnce ==
    \A v \in Vals :
        Started(v) /\ ~val[v].startSeen /\ structurallyValid(v) /\ val[v].verdict = "true" =>
            /\ val[v].pc = "verified" \/ Outcome(v, "ACCEPT", "NONE")
            /\ val[v].pc = "resolved" => val[v].markSeenCalls = 0
            /\ Finished(v) => val[v].markSeenCalls = 1 /\ subject(v) \in seen

C2_Witness ==
    \E v \in Vals :
        /\ Finished(v) /\ ~val[v].startSeen /\ structurallyValid(v)
        /\ val[v].verdict = "true" /\ val[v].markSeenCalls = 1

\* C3: a correctly signed, structurally valid message for an unseen subject
\* is accepted, and a validation of the identical message that starts after
\* the first accepted validation has completed ends with IGNORE and
\* ALREADY_EXISTS.
C3_AcceptThenIgnoreResubmission ==
    /\ \A v \in Vals :
          Finished(v) /\ ~val[v].startSeen /\ structurallyValid(v) /\ correctlySigned(v)
              => Outcome(v, "ACCEPT", "NONE")
    /\ \A v \in Vals :
          Started(v) /\ val[v].resubmitted
              => Finished(v) /\ Outcome(v, "IGNORE", "ALREADY_EXISTS")

\* the message accepted first, from the empty seen set, was validated again
C3_Witness ==
    \E v \in Vals :
        /\ Finished(v) /\ val[v].resubmitted /\ val[v].sbc = firstAccepted
        /\ structurallyValid(v) /\ correctlySigned(v)

\* C4: a validation of an unseen message whose validatorIndex is not below
\* the number of validators of the head state has ended with REJECT and
\* INVALID, without a call of verifySignatureSets.
C4_OutOfRangeIsRejected ==
    \A v \in Vals :
        Started(v) /\ ~val[v].startSeen /\ subject(v) >= validatorsLength(headState) =>
            /\ Finished(v)
            /\ Outcome(v, "REJECT", "INVALID")
            /\ val[v].verifyCalls = <<>>

C4_Witness ==
    \E v \in Vals :
        /\ Finished(v) /\ ~val[v].startSeen
        /\ subject(v) = NumValidators
        /\ Outcome(v, "REJECT", "INVALID")

\* C5: a finished validation of an unseen message for a validator whose
\* withdrawal credentials were given the execution-address prefix has ended
\* with REJECT and INVALID, also when fromBlsPubkey hashes to the remaining
\* bytes of the credentials.
C5_Eth1SubjectIsRejected ==
    \A v \in Vals :
        /\ Finished(v) /\ ~val[v].startSeen
        /\ subject(v) < validatorsLength(headState)
        /\ kinds[subject(v)] = "ETH1"
        => Outcome(v, "REJECT", "INVALID")

\* C6: when the verifier has answered false to an unseen, structurally valid
\* message, the validation ends with REJECT and INVALID_SIGNATURE.
C6_FailedVerificationIsInvalidSignature ==
    \A v \in Vals :
        /\ val[v].pc \in {"resolved", "done"}
        /\ ~val[v].startSeen /\ structurallyValid(v)
        /\ val[v].verdict = "false"
        => Finished(v) /\ Outcome(v, "REJECT", "INVALID_SIGNATURE") /\ val[v].markSeenCalls = 0

C6_Witness ==
    \E v \in Vals :
        /\ Finished(v) /\ val[v].verdict = "false"
        /\ val[v].sbc.signature = ZeroSignature

\* C9: the head state is read, and the structural check made, only when the
\* dedup check found the subject unseen; verifySignatureSets is called only
\* when the structural check found the message valid, at most once, with
\* one signature set, the one of the message, and batchable true.
C9_StagesInOrder ==
    \A v \in Vals :
        /\ val[v].headRead => ~val[v].startSeen
        /\ val[v].structural # "skipped" => val[v].headRead
        /\ val[v].structural = "valid" <=> val[v].verifyCalls # <<>>
        /\ val[v].verifyCalls # <<>> => structurallyValid(v) /\ ~val[v].startSeen
        /\ Len(val[v].verifyCalls) <= 1
        /\ \A i \in 1..Len(val[v].verifyCalls) :
              /\ val[v].verifyCalls[i].sets = <<signatureSetOf(val[v].sbc, val[v].signatureFork)>>
              /\ val[v].verifyCalls[i].opts = [batchable |-> TRUE]
        /\ val[v].verdict # "none" => val[v].verifyCalls # <<>>

\* all three stages ran in a validation while another stopped at the dedup check
C9_Witness ==
    \E v, w \in Vals :
        /\ Finished(v) /\ Len(val[v].verifyCalls) = 1 /\ val[v].verdict = "false"
        /\ Finished(w) /\ val[w].startSeen /\ ~val[w].headRead

\* C10: every seen subject is the subject of a validation that resolved
\* (ACCEPT); a validation that ended with IGNORE or REJECT made no markSeen
\* call; and the seen set changes only by the markSeen of a resolved
\* validation, which adds its subject.
C10_SeenOnlyAfterAccept ==
    /\ [](/\ seen \subseteq accepted
          /\ \A v \in Vals : val[v].action \in {"IGNORE", "REJECT"} => val[v].markSeenCalls = 0)
    /\ [][seen' # seen =>
            \E v \in Vals : /\ val[v].pc = "resolved" /\ val[v].action = "ACCEPT"
                            /\ val'[v].pc = "done"
                            /\ seen' = seen \cup {subject(v)}]_vars

\* a validation was rejected for its signature while its subject is unseen,
\* and another subject is seen
C10_Witness ==
    \E v \in Vals :
        /\ Finished(v) /\ Outcome(v, "REJECT", "INVALID_SIGNATURE")
        /\ subject(v) \notin seen
        /\ seen # {}

\* C11: a validation is accepted only if its dedup check found the subject
\* unseen, that is, ran before any markSeen for the subject completed; the
\* seen set never shrinks, so a validation whose dedup check ran after a
\* markSeen for its subject is ignored with ALREADY_EXISTS, while validations
\* that passed the dedup check before it each call the verifier and may each
\* be accepted.
C11_AcceptOnlyIfDedupBeforeMarkSeen ==
    /\ [](\A v \in Vals :
            /\ val[v].action = "ACCEPT" => ~val[v].startSeen /\ Len(val[v].verifyCalls) = 1
            /\ Started(v) /\ val[v].startSeen => Outcome(v, "IGNORE", "ALREADY_EXISTS")
            /\ Started(v) /\ ~val[v].startSeen /\ structurallyValid(v)
                  => Len(val[v].verifyCalls) = 1)
    /\ [][/\ seen \subseteq seen'
          /\ \A v \in Vals :
                val[v].pc = "idle" /\ val'[v].pc # "idle"
                    => (val'[v].startSeen <=> val'[v].sbc.message.validatorIndex \in seen)]_vars

\* two validations of the same message both passed the dedup check, both
\* called the verifier, both were accepted and both marked the subject seen
C11_Witness ==
    \E v, w \in Vals :
        /\ v # w /\ val[v].sbc = val[w].sbc
        /\ Finished(v) /\ Finished(w)
        /\ Outcome(v, "ACCEPT", "NONE") /\ Outcome(w, "ACCEPT", "NONE")
        /\ Len(val[v].verifyCalls) = 1 /\ Len(val[w].verifyCalls) = 1
        /\ val[v].markSeenCalls = 1 /\ val[w].markSeenCalls = 1

\* C16: ALREADY_EXISTS comes only with IGNORE, INVALID and INVALID_SIGNATURE
\* only with REJECT, every IGNORE or REJECT carries one of these three codes,
\* and a validation without an error carries none.
C16_CodeFixesAction ==
    \A v \in Vals :
        /\ val[v].code = "ALREADY_EXISTS" => val[v].action = "IGNORE"
        /\ val[v].code \in {"INVALID", "INVALID_SIGNATURE"} => val[v].action = "REJECT"
        /\ val[v].action \in {"IGNORE", "REJECT"}
              => val[v].code \in {"ALREADY_EXISTS", "INVALID", "INVALID_SIGNATURE"}
        /\ val[v].action \in {"ACCEPT", "NONE"} <=> val[v].code = "NONE"
        /\ Finished(v) => val[v].action \in {"ACCEPT", "IGNORE", "REJECT"}

\* a validation rejected for its signature beside one ignored as a duplicate
C16_Witness ==
    \E v, w \in Vals :
        /\ Finished(v) /\ Outcome(v, "REJECT", "INVALID_SIGNATURE")
        /\ Finished(w) /\ Outcome(w, "IGNORE", "ALREADY_EXISTS")

\* validateBlsToExecutionChange of slot v has thrown or resolved
Terminated(v) == val[v].pc \in {"resolved", "done"}

\* C18: when the verifier answers every call, every started validation
\* terminates; a terminated validation has one of the outcomes ACCEPT, IGNORE
\* and REJECT, which does not change afterwards; a validation stopped by the
\* dedup or the structural check has terminated in the step that started it,
\* with no call of the verifier.
C18_EveryValidationTerminates ==
    /\ \A v \in Vals : Started(v) ~> Terminated(v)
    /\ [](\A v \in Vals :
            /\ Terminated(v) <=> val[v].action \in {"ACCEPT", "IGNORE", "REJECT"}
            /\ Started(v) /\ (val[v].startSeen \/ ~structurallyValid(v))
                  => Finished(v) /\ val[v].verifyCalls = <<>> /\ val[v].verdict = "none")
    /\ [][\A v \in Vals :
            val[v].action # "NONE" /\ val'[v].pc # "idle"
                => val'[v].action = val[v].action /\ val'[v].code = val[v].code]_vars

\* a validation that waited for the verifier has terminated beside one that
\* the structural check stopped
C18_Witness ==
    \E v, w \in Vals :
        /\ Terminated(v) /\ val[v].verdict = "false"
        /\ Terminated(w) /\ ~val[w].startSeen /\ ~structurallyValid(w)

\* C15: under batching every caller is answered true exactly when its own
\* signature sets are valid, whatever else is in its batch; an answer of
\* false is given only by the verification of the request on its own, and
\* the requests of a batch stay pending until the aggregate verification
\* succeeds or, after it failed, each is verified on its own.
C15_BatchAnswersEachCallerItsOwn ==
    /\ \A v \in Vals :
          /\ val[v].verdict # "none" => (val[v].verdict = "true" <=> correctlySigned(v))
          /\ val[v].verdict = "false" => val[v].verifiedBy = "retry"
    /\ \A v \in batch.members : val[v].pc = "awaitVerify" /\ val[v].verdict = "none"
    /\ batch.stage = "retry" => ~verifyMultipleSignatures(batch.calls)

\* a valid request and an invalid request were in one batch: the aggregate
\* verification failed, the valid one was verified on its own and answered
\* true while the invalid one is still to be verified
C15_Witness ==
    /\ batch.stage = "retry"
    /\ \E v \in batch.all \ batch.members, w \in batch.members :
          /\ val[v].pc = "verified" /\ val[v].verifiedBy = "retry" /\ val[v].verdict = "true"
          /\ ~correctlySigned(w)

(***************************************************************************)
(* Properties of the rate limiter.                                         *)
(***************************************************************************)
byPeer == LightClientUpdatesByRange.inboundRateLimits.byPeer

\* the units admitted to a peer in its current window, from the history; none
\* when the peer has no window or its window has elapsed
unitsInWindow(p) ==
    IF rateLimit[p] = NoState \/ now - rateLimit[p].windowStart >= byPeer.quotaTimeMs
    THEN 0
    ELSE logUnits(logSince(admitLog[p], rateLimit[p].windowStart))

\* C7 as stated: in any interval of quotaTimeMs, whatever its start, no more
\* than quota units are admitted to a peer.
C7_AtMostQuotaInAnyInterval ==
    \A p \in Peers : logUnits(admitLog[p]) <= byPeer.quota

\* C7, amended: within one window of the limiter (from the call that starts
\* it until quotaTimeMs later) a request is admitted exactly when the units
\* admitted in that window plus its count do not exceed quota, so quota
\* units are admitted and the first request beyond them is refused; the
\* first request after the window has elapsed starts a window with nothing
\* consumed, in which quota units are admitted again.
C7_QuotaPerFixedWindow ==
    /\ [](\A p \in Peers :
            rateLimit[p] # NoState /\ now - rateLimit[p].windowStart < byPeer.quotaTimeMs =>
                /\ unitsInWindow(p) = rateLimit[p].consumed
                /\ unitsInWindow(p) <= byPeer.quota)
    /\ [][now' = now =>
            LET p == lastAdmit'.peer
            IN  /\ lastAdmit'.admitted <=> unitsInWindow(p) + lastAdmit'.count <= byPeer.quota
                /\ lastAdmit'.admitted =>
                      /\ now - rateLimit'[p].windowStart < byPeer.quotaTimeMs
                      /\ rateLimit'[p].consumed = unitsInWindow(p) + lastAdmit'.count]_vars

\* in a later window a peer has been admitted quota units, and its next
\* request has been refused
C7_Witness ==
    \E p \in Peers :
        /\ rateLimit[p] # NoState
        /\ rateLimit[p].windowStart >= byPeer.quotaTimeMs
        /\ rateLimit[p].consumed = byPeer.quota
        /\ lastAdmit.peer = p /\ ~lastAdmit.admitted /\ lastAdmit.count = 1

C12_ConsumedWithinQuota ==
    \A p \in Peers :
        rateLimit[p] # NoState =>
            /\ rateLimit[p].consumed >= 0
            /\ rateLimit[p].consumed <= byPeer.quota

\* a peer has used up its quota, has then been refused, and time has passed
C12_Witness ==
    \E p \in Peers :
        /\ rateLimit[p] # NoState /\ rateLimit[p].consumed = byPeer.quota
        /\ lastAdmit.peer = p /\ ~lastAdmit.admitted /\ lastAdmit.count > 0
        /\ now > lastAdmit.at

\* C13: in an interval shorter than quotaTimeMs a peer is admitted at most
\* twice the quota (the witness shows that twice the quota is reached).
C13_AtMostTwiceQuotaInAnyInterval ==
    \A p \in Peers : logUnits(admitLog[p]) <= 2 * byPeer.quota

\* the double burst: quota units admitted in one window and quota units in
\* the next, less than quotaTimeMs apart
C13_Witness ==
    \E p \in Peers :
        /\ rateLimit[p] # NoState
        /\ logUnits(admitLog[p]) = 2 * byPeer.quota
        /\ logUnits(logSince(admitLog[p], rateLimit[p].windowStart)) = byPeer.quota
        /\ \A e \in admitLog[p] : now - e.t < byPeer.quotaTimeMs

\* C14: an admit call for a peer, admitted or refused, leaves the
\* RateLimitState of every other peer, and what was admitted to it, as it was.
C14_OtherPeersUnchanged ==
    [][now' = now =>
          \A q \in Peers \ {lastAdmit'.peer} :
              rateLimit'[q] = rateLimit[q] /\ admitLog'[q] = admitLog[q]]_vars

\* a peer is refused while the other peer has a window with quota left
C14_Witness ==
    \E p, q \in Peers :
        /\ p # q
        /\ lastAdmit.peer = p /\ ~lastAdmit.admitted
        /\ rateLimit[p] # NoState /\ rateLimit[p].consumed = byPeer.quota
        /\ rateLimit[q] # NoState /\ rateLimit[q].consumed = 1

\* C19 as stated: a request with a count above the quota is refused and
\* changes nothing; a request with count 0 is admitted and leaves the
\* consumed count of the RateLimitState of its peer, if it has one, as it was.
C19_ZeroCountLeavesConsumed ==
    [][now' = now =>
          LET p == lastAdmit'.peer
          IN  /\ lastAdmit'.count > byPeer.quota
                    => ~lastAdmit'.admitted /\ rateLimit' = rateLimit
              /\ lastAdmit'.count = 0 /\ rateLimit[p] # NoState
                    => lastAdmit'.admitted /\ rateLimit'[p].consumed = rateLimit[p].consumed]_vars

\* C19, amended: a request with a count above the quota is refused in every
\* state and changes nothing; a request with count 0 is admitted in every
\* state and adds nothing to the consumed count of the window it is
\* evaluated in, which is 0 when the peer had no window or its window had
\* elapsed.
C19_CountIsCost ==
    [][now' = now =>
          LET p == lastAdmit'.peer
          IN  /\ lastAdmit'.count > byPeer.quota
                    => /\ ~lastAdmit'.admitted
                       /\ rateLimit' = rateLimit /\ admitLog' = admitLog
              /\ lastAdmit'.count = 0
                    => /\ lastAdmit'.admitted
                       /\ rateLimit'[p].consumed = activeWindow(rateLimit[p], byPeer, now).consumed
                       /\ rateLimit'[p].consumed = unitsInWindow(p)
                       /\ admitLog' = admitLog]_vars

\* a request above the quota was refused in a fresh window: the peer has no
\* RateLimitState yet
C19_Witness ==
    \E p \in Peers :
        /\ lastAdmit.peer = p /\ ~lastAdmit.admitted
        /\ lastAdmit.count > byPeer.quota
        /\ rateLimit[p] = NoState

====
